---- MODULE Spec2Model ----
(***************************************************************************)
(* Model of the treadmill OpenXR API layer (OpenXRLayer/treadmill_layer.cpp *)
(* with the types and macros of OpenXRLayer/openxr_defs.h).                 *)
(*                                                                          *)
(* The layer's globals are the variables, under the names the source gives  *)
(* them.  Every intercepted entry point is one action that executes the     *)
(* whole handler, the calls it makes included.  The application thread is   *)
(* either outside the layer (call.op = "idle") or has just come back from   *)
(* one handler, whose arguments, result and call sequence are kept in       *)
(* `call` until Return.                                                     *)
(*                                                                          *)
(* float values are multiples of 1/Scale (the value v stands for v/Scale),  *)
(* on which float addition and comparison are exact.                        *)
(***************************************************************************)
EXTENDS Integers, Sequences, FiniteSets, TLC

VARIABLES
    g_instance,                             \* XR_NULL_HANDLE or the instance
    g_nextGetInstanceProcAddr,              \* "NULL" or the function pointed to
    g_xrDestroyInstance,
    g_xrPathToString,
    g_xrStringToPath,
    g_xrSuggestInteractionProfileBindings,
    g_xrGetActionStateFloat,
    g_xrGetActionStateVector2f,
    g_leftHandPath,                         \* XrPath
    g_tracked,                              \* TrackedActions
    g_sharedMemHandle,                      \* 0 (NULL) or 1 (an open handle)
    g_sharedData,                           \* 0 (NULL) or 1 (a mapped view)
    g_lastSharedMemAttempt,                 \* ULONGLONG tick count
    now,                                    \* GetTickCount64()
    regionExists,                           \* the producer's named mapping exists
    call,                                   \* the application's last call
    mapFails,                               \* MapViewOfFile fails at present
    lastOpen,                               \* the last call of OpenFileMappingA
    cleared,                                \* the last teardown found a classification
    suggested,                              \* the live session forwarded a binding event
    g_cs,                                   \* CRITICAL_SECTION: 0 or the thread that owns it
    threads,                                \* where each application thread is in a handler
    os,                                     \* handles open and views mapped in the process
    committed                               \* g_tracked as the last whole event left it

chainVars == <<g_instance, g_nextGetInstanceProcAddr, g_xrDestroyInstance,
               g_xrPathToString, g_xrStringToPath,
               g_xrSuggestInteractionProfileBindings,
               g_xrGetActionStateFloat, g_xrGetActionStateVector2f,
               g_leftHandPath>>
readerVars == <<g_sharedMemHandle, g_sharedData, g_lastSharedMemAttempt>>
envVars == <<now, regionExists>>
\* What the specifications of the session and the reader observe on top.
sessionVars == <<cleared, suggested>>
threadVars == <<g_cs, threads, os, committed>>
auxVars == <<mapFails, lastOpen, sessionVars, threadVars>>
vars == <<chainVars, g_tracked, readerVars, envVars, call, auxVars>>

----------------------------------------------------------------------------
(* Program constants.                                                       *)

XR_TRUE == 1
XR_FALSE == 0
XR_NULL_PATH == 0
XR_NULL_HANDLE == 0
XR_SUCCESS == 0
XR_ERROR_FUNCTION_UNSUPPORTED == -1
XR_ERROR_HANDLE_INVALID == -12
XR_ERROR_INITIALIZATION_FAILED == -38
SHARED_MEM_RETRY_MS == 2000
MAX_TRACKED_ACTIONS == 64

XR_FAILED_NoCheck(result) == FALSE

XR_FAILED(result) == result < 0

----------------------------------------------------------------------------
(* Bounds of the model.                                                     *)

\* float values are multiples of 1/Scale; 1.0f is Scale.
Scale == 2
\* Longest list of suggested bindings an application-written event carries.
MaxBindings == 2
\* The tick count advances at most MaxTicks times, one retry interval each.
MaxTicks == 2

\* The application's action handles.
Actions == {1, 2}

\* A second family of handles, enough of them to fill one tracked array.
FillerActions == {100 + i : i \in 1..MAX_TRACKED_ACTIONS}

\* float values the next link hands over: the grid points of [-1.0, 1.0].
FloatValues == (0 - Scale)..Scale

\* Velocities the producer writes: the same and, as nothing holds it to its
\* range, one grid step beyond on either side.
Velocities == (0 - Scale - 1)..(Scale + 1)

\* Result codes of the next chain link.
ResultCodes == {XR_SUCCESS, XR_ERROR_HANDLE_INVALID}

----------------------------------------------------------------------------
(* The runtime's path table: XrPath atom -> path string.  Atom 0 is         *)
(* XR_NULL_PATH, which no string belongs to.                                *)

PathTable ==
    [p \in 1..7 |->
        CASE p = 1 -> "/user/hand/left"
          [] p = 2 -> "/user/hand/right"
          [] p = 3 -> "/user/hand/left/input/thumbstick"
          [] p = 4 -> "/user/hand/left/input/thumbstick/y"
          [] p = 5 -> "/user/hand/left/input/thumbstick/x"
          [] p = 6 -> "/user/hand/right/input/thumbstick/y"
          [] p = 7 -> "/user/hand/left/input/trigger/value"]

\* strstr(haystack, needle) != NULL
strstr(haystack, needle) ==
    \E i \in 1..(Len(haystack) - Len(needle) + 1) :
        SubSeq(haystack, i, i + Len(needle) - 1) = needle

\* strstr tabulated over the table's strings and the handler's markers, so
\* that each search is made once.
Contains ==
    [pathStr \in {PathTable[p] : p \in DOMAIN PathTable} |->
        [marker \in {"/user/hand/left", "thumbstick", "thumbstick/y", "thumbstick/x"} |->
            strstr(pathStr, marker)]]

\* The next link's xrPathToString: the result code, the count written
\* (terminator included) and the string.  Every string of the table fits the
\* handler's 256-char buffer.
xrPathToString(path) ==
    IF path \in DOMAIN PathTable
    THEN [pr |-> XR_SUCCESS, pathLen |-> Len(PathTable[path]) + 1,
          pathStr |-> PathTable[path]]
    ELSE [pr |-> XR_ERROR_HANDLE_INVALID, pathLen |-> 0, pathStr |-> ""]

\* The next link's xrStringToPath.
xrStringToPath(pathString) ==
    CHOOSE p \in DOMAIN PathTable : PathTable[p] = pathString

LeftHandAtom == xrStringToPath("/user/hand/left")
RightHandAtom == xrStringToPath("/user/hand/right")

\* Paths an application suggests bindings to: the table's and an atom the
\* runtime cannot resolve.
BindingPaths == (DOMAIN PathTable \ {LeftHandAtom, RightHandAtom}) \cup {XR_NULL_PATH}

\* Subaction paths an application scopes a query to.
SubactionPaths == {XR_NULL_PATH, LeftHandAtom, RightHandAtom}

----------------------------------------------------------------------------
(* Shared-memory reader.                                                    *)

\* TreadmillSharedData as the producer may have written it.
SharedRecords ==
    [velocity : Velocities, active : {1}] \cup [velocity : {Scale}, active : {0}]

\* OpenSharedMemory(): the handle and view after the call, and whether
\* OpenFileMappingA was called.  mapOK: MapViewOfFile succeeds.
OpenSharedMemory(handle, data, exists, mapOK) ==
    IF handle # 0
    THEN [handle |-> handle, data |-> data, opened |-> FALSE]
    ELSE IF exists
    THEN [handle |-> 1, data |-> IF mapOK THEN 1 ELSE 0, opened |-> TRUE]
    ELSE [handle |-> 0, data |-> data, opened |-> TRUE]

CloseSharedMemory_KeepsHandle(handle, data) == [handle |-> handle, data |-> 0]

\* CloseSharedMemory()
CloseSharedMemory(handle, data) == [handle |-> 0, data |-> 0]

ReadTreadmillVelocity_IgnoresActive(handle, data, last, tick, exists, mapOK, rec) ==
    LET due == data = 0 /\ tick - last >= SHARED_MEM_RETRY_MS
        o == IF due
             THEN OpenSharedMemory(handle, data, exists, mapOK)
             ELSE [handle |-> handle, data |-> data, opened |-> FALSE]
    IN  [velocity |-> IF o.data # 0 THEN rec.velocity ELSE 0,
         handle |-> o.handle,
         data |-> o.data,
         last |-> IF due THEN tick ELSE last,
         opened |-> o.opened]

\* ReadTreadmillVelocity(): the value returned, the reader's globals after
\* the call, and whether a connection attempt was made.  rec is what the
\* mapped view holds when it is read.
ReadTreadmillVelocity(handle, data, last, tick, exists, mapOK, rec) ==
    LET due == data = 0 /\ tick - last >= SHARED_MEM_RETRY_MS
        o == IF due
             THEN OpenSharedMemory(handle, data, exists, mapOK)
             ELSE [handle |-> handle, data |-> data, opened |-> FALSE]
    IN  [velocity |-> IF o.data # 0 /\ rec.active # 0 THEN rec.velocity ELSE 0,
         handle |-> o.handle,
         data |-> o.data,
         last |-> IF due THEN tick ELSE last,
         opened |-> o.opened]

----------------------------------------------------------------------------
(* Action tracking.                                                         *)

\* ContainsAction(arr, count, key), the array being arr[1..count]
ContainsAction(arr, key) == \E i \in 1..Len(arr) : arr[i] = key

\* AddAction(arr, &count, key)
AddAction(arr, key) ==
    IF Len(arr) >= MAX_TRACKED_ACTIONS THEN arr
    ELSE IF ~ContainsAction(arr, key) THEN Append(arr, key)
    ELSE arr

\* g_tracked = {}
NoTracked == [vec2f |-> <<>>, floatY |-> <<>>, bindingsReceived |-> FALSE]

----------------------------------------------------------------------------
(* Intercepted: xrSuggestInteractionProfileBindings.                        *)

TrackBinding_FlagOnlyIfAdded(tracked, key, pathStr) ==
    LET isLeft == Contains[pathStr]["/user/hand/left"]
        isThumbstick == Contains[pathStr]["thumbstick"]
    IN  IF isLeft /\ isThumbstick
        THEN IF Contains[pathStr]["thumbstick/y"]
             THEN [tracked EXCEPT !.floatY = AddAction(@, key), !.bindingsReceived = TRUE]
             ELSE IF ~Contains[pathStr]["thumbstick/x"]
             THEN [tracked EXCEPT !.vec2f = AddAction(@, key), !.bindingsReceived = TRUE]
             ELSE tracked
        ELSE tracked

\* The body of the loop from the resolved string on.
TrackBinding(tracked, key, pathStr) ==
    LET isLeft == Contains[pathStr]["/user/hand/left"]
        isThumbstick == Contains[pathStr]["thumbstick"]
    IN  IF isLeft /\ isThumbstick
        THEN LET t == IF Contains[pathStr]["thumbstick/y"]
                      THEN [tracked EXCEPT !.floatY = AddAction(@, key)]
                      ELSE IF ~Contains[pathStr]["thumbstick/x"]
                      THEN [tracked EXCEPT !.vec2f = AddAction(@, key)]
                      ELSE tracked
             IN  [t EXCEPT !.bindingsReceived = TRUE]
        ELSE tracked

\* One iteration of the loop: binding i.
ScanBinding(tracked, suggestedBindings, i) ==
    LET r == xrPathToString(suggestedBindings[i].binding)
    IN  IF XR_FAILED(r.pr) \/ r.pathLen = 0 THEN tracked
        ELSE TrackBinding(tracked, suggestedBindings[i].action, r.pathStr)

\* The loop over bindings lo..hi, in order: g_tracked after it.  It is
\* written as the first half followed by the second, and the test on the
\* outcome of the first half, which always holds, has it computed before
\* the second half starts: evaluation then nests only logarithmically deep.
RECURSIVE ScanBindings(_, _, _, _)
ScanBindings(tracked, suggestedBindings, lo, hi) ==
    IF lo > hi THEN tracked
    ELSE IF lo = hi THEN ScanBinding(tracked, suggestedBindings, lo)
    ELSE LET mid == (lo + hi) \div 2
             first == ScanBindings(tracked, suggestedBindings, lo, mid)
         IN  IF first.bindingsReceived \in BOOLEAN
             THEN ScanBindings(first, suggestedBindings, mid + 1, hi)
             ELSE first

SuggestBindingsHandler_ScanFirst(tracked, pathToString, suggestedBindings, result) ==
    [ret |-> result,
     tracked |-> ScanBindings(tracked, suggestedBindings, 1, Len(suggestedBindings)),
     trace |-> <<"EnterCriticalSection">>
               \o [i \in 1..Len(suggestedBindings) |-> "g_xrPathToString"]
               \o <<"LeaveCriticalSection", "g_xrSuggestInteractionProfileBindings">>]

SuggestBindingsHandler_NoResolverTest(tracked, pathToString, suggestedBindings, result) ==
    IF XR_FAILED(result)
    THEN [ret |-> result, tracked |-> tracked,
          trace |-> <<"g_xrSuggestInteractionProfileBindings">>]
    ELSE [ret |-> result,
          tracked |-> ScanBindings(tracked, suggestedBindings, 1, Len(suggestedBindings)),
          trace |-> <<"g_xrSuggestInteractionProfileBindings", "EnterCriticalSection">>
                    \o [i \in 1..Len(suggestedBindings) |-> "g_xrPathToString"]
                    \o <<"LeaveCriticalSection">>]

\* TreadmillLayer_xrSuggestInteractionProfileBindings: what it returns,
\* g_tracked after it and the calls it made, in order.  result is what the
\* next link answers.
SuggestBindingsHandler(tracked, pathToString, suggestedBindings, result) ==
    IF XR_FAILED(result)
    THEN [ret |-> result, tracked |-> tracked,
          trace |-> <<"g_xrSuggestInteractionProfileBindings">>]
    ELSE IF pathToString = "NULL"
    THEN [ret |-> result, tracked |-> tracked,
          trace |-> <<"g_xrSuggestInteractionProfileBindings">>]
    ELSE [ret |-> result,
          tracked |-> ScanBindings(tracked, suggestedBindings, 1, Len(suggestedBindings)),
          trace |-> <<"g_xrSuggestInteractionProfileBindings", "EnterCriticalSection">>
                    \o [i \in 1..Len(suggestedBindings) |-> "g_xrPathToString"]
                    \o <<"LeaveCriticalSection">>]

----------------------------------------------------------------------------
(* Intercepted: xrGetActionStateVector2f, xrGetActionStateFloat.            *)

InScope_Always(subactionPath, leftHandPath) == TRUE

\* The subaction filter: the query is for "any" or for the left hand.
InScope(subactionPath, leftHandPath) ==
    ~(subactionPath # XR_NULL_PATH /\ subactionPath # leftHandPath)

NothingToAdd_Never(velocity) == FALSE

\* velocity == 0.0f
NothingToAdd(velocity) == velocity = 0

ShouldInjectVector2f_NoFallback(tracked, key) == ContainsAction(tracked.vec2f, key)

\* shouldInject of the 2-D handler
ShouldInjectVector2f(tracked, key) ==
    IF ContainsAction(tracked.vec2f, key) THEN TRUE
    ELSE IF ~tracked.bindingsReceived THEN TRUE
    ELSE FALSE

ShouldInjectFloat_Fallback(tracked, key) ==
    ContainsAction(tracked.floatY, key) \/ ~tracked.bindingsReceived

\* shouldInject of the scalar handler
ShouldInjectFloat(tracked, key) == ContainsAction(tracked.floatY, key)

AddClamped_NoLowerBound(value, velocity) ==
    IF value + velocity > Scale THEN Scale ELSE value + velocity

\* value += velocity; if (value > 1.0f) value = 1.0f; if (value < -1.0f) value = -1.0f;
AddClamped(value, velocity) ==
    LET sum == value + velocity
        upper == IF sum > Scale THEN Scale ELSE sum
    IN  IF upper < 0 - Scale THEN 0 - Scale ELSE upper

InjectVector2f_FlagsIfMoved(state, velocity) ==
    IF AddClamped(state.y, velocity) = state.y THEN state
    ELSE [state EXCEPT !.y = AddClamped(@, velocity),
                       !.isActive = XR_TRUE,
                       !.changedSinceLastSync = XR_TRUE]

\* The injection into an XrActionStateVector2f
InjectVector2f(state, velocity) ==
    [state EXCEPT !.y = AddClamped(@, velocity),
                  !.isActive = XR_TRUE,
                  !.changedSinceLastSync = XR_TRUE]

\* The injection into an XrActionStateFloat
InjectFloat(state, velocity) ==
    [state EXCEPT !.currentState = AddClamped(@, velocity),
                  !.isActive = XR_TRUE,
                  !.changedSinceLastSync = XR_TRUE]

\* What a get-state handler hands back when it returns right after the
\* forwarded call: the next link's result and state, the reader untouched.
Untouched(forward, result, state, reader) ==
    [ret |-> result, state |-> state, reader |-> reader,
     velocity |-> 0, injected |-> FALSE, trace |-> <<forward>>]

\* The same after float velocity = ReadTreadmillVelocity(), rd being the
\* outcome of that call.
AfterRead(forward, result, state, rd) ==
    [ret |-> result, state |-> state,
     reader |-> [handle |-> rd.handle, data |-> rd.data, last |-> rd.last],
     velocity |-> rd.velocity, injected |-> FALSE,
     trace |-> <<forward, "ReadTreadmillVelocity">>
               \o (IF rd.opened THEN <<"OpenFileMappingA">> ELSE <<>>)]

\* The same after the critical section that computes shouldInject.
AfterDecision(forward, result, state, rd) ==
    [AfterRead(forward, result, state, rd) EXCEPT
        !.trace = @ \o <<"EnterCriticalSection", "LeaveCriticalSection">>]

\* TreadmillLayer_xrGetActionStateVector2f.  result and state are what the
\* next link answers, reader the reader's globals, rec what the mapped view
\* holds when read; the outcome is what the handler returns, the state it
\* leaves to the caller, the reader's globals after it, the velocity read,
\* whether it injected and the calls it made, in order.
GetActionStateVector2fHandler(tracked, leftHandPath, reader, getInfo, result, state, tick, exists, mapOK, rec) ==
    LET forward == "g_xrGetActionStateVector2f"
        rd == ReadTreadmillVelocity(reader.handle, reader.data, reader.last,
                                    tick, exists, mapOK, rec)
    IN  IF XR_FAILED(result) THEN Untouched(forward, result, state, reader)
        ELSE IF ~InScope(getInfo.subactionPath, leftHandPath)
        THEN Untouched(forward, result, state, reader)
        ELSE IF NothingToAdd(rd.velocity) THEN AfterRead(forward, result, state, rd)
        ELSE IF ShouldInjectVector2f(tracked, getInfo.action)
        THEN [AfterDecision(forward, result, state, rd) EXCEPT
                !.state = InjectVector2f(state, rd.velocity), !.injected = TRUE]
        ELSE AfterDecision(forward, result, state, rd)

\* TreadmillLayer_xrGetActionStateFloat, likewise.
GetActionStateFloatHandler(tracked, leftHandPath, reader, getInfo, result, state, tick, exists, mapOK, rec) ==
    LET forward == "g_xrGetActionStateFloat"
        rd == ReadTreadmillVelocity(reader.handle, reader.data, reader.last,
                                    tick, exists, mapOK, rec)
    IN  IF XR_FAILED(result) THEN Untouched(forward, result, state, reader)
        ELSE IF ~InScope(getInfo.subactionPath, leftHandPath)
        THEN Untouched(forward, result, state, reader)
        ELSE IF NothingToAdd(rd.velocity) THEN AfterRead(forward, result, state, rd)
        ELSE IF ShouldInjectFloat(tracked, getInfo.action)
        THEN [AfterDecision(forward, result, state, rd) EXCEPT
                !.state = InjectFloat(state, rd.velocity), !.injected = TRUE]
        ELSE AfterDecision(forward, result, state, rd)

----------------------------------------------------------------------------
(* The application's call record.                                           *)

NoGetInfo == [action |-> 0, subactionPath |-> XR_NULL_PATH]
NoEnv == [mapOK |-> TRUE, rec |-> [velocity |-> 0, active |-> 0]]
NoState == [currentState |-> 0, isActive |-> XR_FALSE, changedSinceLastSync |-> XR_FALSE]

\* op: the entry point called ("idle": none); getInfo, suggestedBindings:
\* its arguments; forwarded: what the next link answered; ret, state: what
\* the handler handed back; velocity: what ReadTreadmillVelocity returned to
\* it; injected: it took the injection branch; trace: the calls it made;
\* env: what the environment answered to its reader (NoEnv: not asked).
CallRecord(op, getInfo, suggestedBindings, result, fstate, ret, state, velocity, injected, trace) ==
    [op |-> op, getInfo |-> getInfo, suggestedBindings |-> suggestedBindings,
     forwarded |-> [result |-> result, state |-> fstate],
     ret |-> ret, state |-> state, velocity |-> velocity,
     injected |-> injected, trace |-> trace, env |-> NoEnv]

NoCall == CallRecord("idle", NoGetInfo, <<>>, XR_SUCCESS, NoState, XR_SUCCESS,
                     NoState, 0, FALSE, <<>>)

Vector2fStates ==
    [x : {0 - 1}, y : FloatValues,
     isActive : {XR_FALSE, XR_TRUE}, changedSinceLastSync : {XR_FALSE, XR_TRUE}]

FloatStates ==
    [currentState : FloatValues,
     isActive : {XR_FALSE, XR_TRUE}, changedSinceLastSync : {XR_FALSE, XR_TRUE}]

GetInfos == [action : Actions, subactionPath : SubactionPaths]

Reader == [handle |-> g_sharedMemHandle, data |-> g_sharedData,
           last |-> g_lastSharedMemAttempt]

\* A connection attempt made now would get as far as MapViewOfFile.
WouldMap == g_sharedMemHandle = 0 /\ regionExists

\* What MapViewOfFile may answer, where a call of OpenSharedMemory gets to it.
MapOutcomes == IF WouldMap THEN BOOLEAN ELSE {TRUE}

\* What the environment may answer to a get-state handler: whether
\* MapViewOfFile succeeds and what the view holds when read.  Only a handler
\* that gets to ReadTreadmillVelocity asks, and only one with a view, or due
\* to map one, reads it: the other choices would change nothing.
ReaderAnswers(getInfo, result) ==
    IF XR_FAILED(result) \/ ~InScope(getInfo.subactionPath, g_leftHandPath)
    THEN {NoEnv}
    ELSE IF g_sharedData # 0
    THEN [mapOK : {TRUE}, rec : SharedRecords]
    ELSE IF WouldMap /\ now - g_lastSharedMemAttempt >= SHARED_MEM_RETRY_MS
    THEN [mapOK : {TRUE}, rec : SharedRecords]
         \cup {[mapOK |-> FALSE, rec |-> NoEnv.rec]}
    ELSE {NoEnv}

----------------------------------------------------------------------------
(* Initial state: the globals as their initialisers leave them.             *)

\* The application's threads.
Threads == {1, 2}

\* A thread outside the layer.  pc: where it is; h: the handle its own
\* OpenFileMappingA returned; p: the pointer it loaded from g_sharedData;
\* i: the binding its scan is at; hit, inject: its ContainsAction result
\* and its shouldInject; snap: the classification that was whole when it
\* entered the critical section; seen: OpenSharedMemory found a handle
\* stored; half: and the read then found no view.
IdleThread ==
    [pc |-> "idle", h |-> 0, p |-> 0, i |-> 0, hit |-> FALSE, inject |-> FALSE,
     snap |-> NoTracked, seen |-> FALSE, half |-> FALSE]

\* OpenFileMappingA has not been called.
NoOpen == [at |-> 0 - 1, failed |-> FALSE]

Init ==
    /\ g_instance = XR_NULL_HANDLE
    /\ g_nextGetInstanceProcAddr = "NULL"
    /\ g_xrDestroyInstance = "NULL"
    /\ g_xrPathToString = "NULL"
    /\ g_xrStringToPath = "NULL"
    /\ g_xrSuggestInteractionProfileBindings = "NULL"
    /\ g_xrGetActionStateFloat = "NULL"
    /\ g_xrGetActionStateVector2f = "NULL"
    /\ g_leftHandPath = XR_NULL_PATH
    /\ g_tracked = NoTracked
    /\ g_sharedMemHandle = 0
    /\ g_sharedData = 0
    /\ g_lastSharedMemAttempt = 0
    /\ now = 0
    /\ regionExists \in BOOLEAN
    /\ call = NoCall
    /\ mapFails = FALSE
    /\ lastOpen = NoOpen
    /\ cleared = FALSE
    /\ suggested = FALSE
    /\ g_cs = 0
    /\ threads = [t \in Threads |-> IdleThread]
    /\ os = [handles |-> {}, views |-> {}, opens |-> 0]
    /\ committed = NoTracked

----------------------------------------------------------------------------
(* Environment.                                                             *)

\* The application comes back from the handler and may call again.  A call
\* through a null pointer ("fault") does not come back.
Return ==
    /\ call.op \notin {"idle", "fault"}
    /\ call' = NoCall
    /\ UNCHANGED <<chainVars, g_tracked, readerVars, envVars, auxVars>>

\* Time passes: one retry interval.
Tick ==
    /\ call.op = "idle"
    /\ now < MaxTicks * SHARED_MEM_RETRY_MS
    /\ now' = now + SHARED_MEM_RETRY_MS
    /\ UNCHANGED <<chainVars, g_tracked, readerVars, regionExists, call, auxVars>>

\* The companion application creates the named mapping.
ProducerStart ==
    /\ call.op = "idle"
    /\ ~regionExists
    /\ regionExists' = TRUE
    /\ UNCHANGED <<chainVars, g_tracked, readerVars, now, call, auxVars>>

\* The companion application exits.  A view the layer holds stays mapped.
ProducerStop ==
    /\ call.op = "idle"
    /\ regionExists
    /\ regionExists' = FALSE
    /\ UNCHANGED <<chainVars, g_tracked, readerVars, now, call, auxVars>>

----------------------------------------------------------------------------
(* Entry points.                                                            *)

\* The next link's xrGetInstanceProcAddr for name: the function, or NULL
\* for a name it does not provide.
NextGetInstanceProcAddr(name, missing) == IF name \in missing THEN "NULL" ELSE name

\* TreadmillLayer_xrCreateApiLayerInstance.  nextInfo: "null" (no chain
\* node), "noptrs" (a node without the two pointers) or "ok"; result: what
\* the next link's create answers; missing: the names its lookup lacks.
CreateApiLayerInstance(nextInfo, result, missing) ==
    /\ call.op = "idle"
    /\ g_instance = XR_NULL_HANDLE
    /\ IF nextInfo # "ok"
       THEN /\ call' = CallRecord("create", NoGetInfo, <<>>, XR_SUCCESS, NoState,
                                  XR_ERROR_INITIALIZATION_FAILED, NoState, 0, FALSE, <<>>)
            /\ UNCHANGED <<chainVars, g_tracked, readerVars, envVars>>
       ELSE IF XR_FAILED(result)
       THEN /\ call' = CallRecord("create", NoGetInfo, <<>>, result, NoState,
                                  result, NoState, 0, FALSE, <<"nextCreate">>)
            /\ UNCHANGED <<chainVars, g_tracked, readerVars, envVars>>
       ELSE \E mapOK \in MapOutcomes :
            LET o == OpenSharedMemory(g_sharedMemHandle, g_sharedData, regionExists, mapOK)
            IN  /\ g_instance' = 1
                /\ g_nextGetInstanceProcAddr' = "nextGetInstanceProcAddr"
                /\ g_xrDestroyInstance' = NextGetInstanceProcAddr("xrDestroyInstance", missing)
                /\ g_xrPathToString' = NextGetInstanceProcAddr("xrPathToString", missing)
                /\ g_xrStringToPath' = NextGetInstanceProcAddr("xrStringToPath", missing)
                /\ g_leftHandPath' = IF g_xrStringToPath' # "NULL"
                                     THEN xrStringToPath("/user/hand/left")
                                     ELSE g_leftHandPath
                /\ g_xrSuggestInteractionProfileBindings' =
                       NextGetInstanceProcAddr("xrSuggestInteractionProfileBindings", missing)
                /\ g_xrGetActionStateVector2f' =
                       NextGetInstanceProcAddr("xrGetActionStateVector2f", missing)
                /\ g_xrGetActionStateFloat' =
                       NextGetInstanceProcAddr("xrGetActionStateFloat", missing)
                /\ g_sharedMemHandle' = o.handle
                /\ g_sharedData' = o.data
                /\ call' = CallRecord("create", NoGetInfo, <<>>, result, NoState,
                                      XR_SUCCESS, NoState, 0, FALSE,
                                      <<"nextCreate", "OpenSharedMemory">>
                                      \o (IF o.opened THEN <<"OpenFileMappingA">> ELSE <<>>))
                /\ UNCHANGED <<g_tracked, g_lastSharedMemAttempt, envVars>>

DestroyInstance_KeepsTracked(result) ==
    /\ call.op = "idle"
    /\ g_xrDestroyInstance # "NULL"
    /\ LET c == CloseSharedMemory(g_sharedMemHandle, g_sharedData)
       IN  /\ g_sharedMemHandle' = c.handle
           /\ g_sharedData' = c.data
    /\ g_tracked' = g_tracked
    /\ g_instance' = XR_NULL_HANDLE
    /\ call' = CallRecord("destroy", NoGetInfo, <<>>, result, NoState, result, NoState,
                          0, FALSE,
                          <<"CloseSharedMemory", "EnterCriticalSection",
                            "LeaveCriticalSection", "g_xrDestroyInstance">>)
    /\ UNCHANGED <<g_nextGetInstanceProcAddr, g_xrDestroyInstance, g_xrPathToString,
                   g_xrStringToPath, g_xrSuggestInteractionProfileBindings,
                   g_xrGetActionStateFloat, g_xrGetActionStateVector2f,
                   g_leftHandPath, g_lastSharedMemAttempt, envVars>>

\* TreadmillLayer_xrDestroyInstance.  result: what the next link answers.
DestroyInstance(result) ==
    /\ call.op = "idle"
    /\ g_xrDestroyInstance # "NULL"
    /\ LET c == CloseSharedMemory(g_sharedMemHandle, g_sharedData)
       IN  /\ g_sharedMemHandle' = c.handle
           /\ g_sharedData' = c.data
    /\ g_tracked' = NoTracked
    /\ g_instance' = XR_NULL_HANDLE
    /\ call' = CallRecord("destroy", NoGetInfo, <<>>, result, NoState, result, NoState,
                          0, FALSE,
                          <<"CloseSharedMemory", "EnterCriticalSection",
                            "LeaveCriticalSection", "g_xrDestroyInstance">>)
    /\ UNCHANGED <<g_nextGetInstanceProcAddr, g_xrDestroyInstance, g_xrPathToString,
                   g_xrStringToPath, g_xrSuggestInteractionProfileBindings,
                   g_xrGetActionStateFloat, g_xrGetActionStateVector2f,
                   g_leftHandPath, g_lastSharedMemAttempt, envVars>>

\* The application calls xrSuggestInteractionProfileBindings.
SuggestInteractionProfileBindings(suggestedBindings, result) ==
    /\ call.op = "idle"
    /\ g_xrSuggestInteractionProfileBindings # "NULL"
    /\ LET h == SuggestBindingsHandler(g_tracked, g_xrPathToString,
                                       suggestedBindings, result)
       IN  /\ g_tracked' = h.tracked
           /\ call' = CallRecord("suggest", NoGetInfo, suggestedBindings, result,
                                 NoState, h.ret, NoState, 0, FALSE, h.trace)
    /\ UNCHANGED <<chainVars, readerVars, envVars>>

\* The application calls xrGetActionStateVector2f.
GetActionStateVector2f(getInfo, result, state) ==
    /\ call.op = "idle"
    /\ g_xrGetActionStateVector2f # "NULL"
    /\ \E env \in ReaderAnswers(getInfo, result) :
         LET h == GetActionStateVector2fHandler(g_tracked, g_leftHandPath, Reader,
                                                getInfo, result, state,
                                                now, regionExists, env.mapOK, env.rec)
         IN  /\ g_sharedMemHandle' = h.reader.handle
             /\ g_sharedData' = h.reader.data
             /\ g_lastSharedMemAttempt' = h.reader.last
             /\ call' = [CallRecord("vector2f", getInfo, <<>>, result, state,
                                    h.ret, h.state, h.velocity, h.injected, h.trace)
                          EXCEPT !.env = env]
    /\ UNCHANGED <<chainVars, g_tracked, envVars>>

\* The application calls xrGetActionStateFloat.
GetActionStateFloat(getInfo, result, state) ==
    /\ call.op = "idle"
    /\ g_xrGetActionStateFloat # "NULL"
    /\ \E env \in ReaderAnswers(getInfo, result) :
         LET h == GetActionStateFloatHandler(g_tracked, g_leftHandPath, Reader,
                                             getInfo, result, state,
                                             now, regionExists, env.mapOK, env.rec)
         IN  /\ g_sharedMemHandle' = h.reader.handle
             /\ g_sharedData' = h.reader.data
             /\ g_lastSharedMemAttempt' = h.reader.last
             /\ call' = [CallRecord("float", getInfo, <<>>, result, state,
                                    h.ret, h.state, h.velocity, h.injected, h.trace)
                          EXCEPT !.env = env]
    /\ UNCHANGED <<chainVars, g_tracked, envVars>>

----------------------------------------------------------------------------
(* Spec: the get-state operations against every classification the first    *)
(* action handle can be in.                                                 *)

\* One-binding events for the first action handle.
ProbeEvents ==
    {<<[action |-> 1, binding |-> p]>> :
        p \in {xrStringToPath("/user/hand/left/input/thumbstick"),
               xrStringToPath("/user/hand/left/input/thumbstick/y"),
               xrStringToPath("/user/hand/left/input/thumbstick/x")}}

\* The application is outside the layer and an instance is live.
CanCall == call.op = "idle" /\ g_instance # XR_NULL_HANDLE

Create ==
    /\ call.op = "idle"
    /\ \E missing \in {{}, {"xrStringToPath"}} :
         CreateApiLayerInstance("ok", XR_SUCCESS, missing)
    /\ UNCHANGED auxVars

Destroy ==
    /\ CanCall
    /\ \E result \in ResultCodes : DestroyInstance(result)
    /\ UNCHANGED auxVars

Suggest ==
    /\ CanCall
    /\ \E suggestedBindings \in ProbeEvents :
         SuggestInteractionProfileBindings(suggestedBindings, XR_SUCCESS)
    /\ UNCHANGED auxVars

GetVector2f ==
    /\ CanCall
    /\ \E getInfo \in GetInfos, result \in ResultCodes, state \in Vector2fStates :
         GetActionStateVector2f(getInfo, result, state)
    /\ UNCHANGED auxVars

GetFloat ==
    /\ CanCall
    /\ \E getInfo \in GetInfos, result \in ResultCodes, state \in FloatStates :
         GetActionStateFloat(getInfo, result, state)
    /\ UNCHANGED auxVars

Next ==
    \/ Return
    \/ Tick
    \/ ProducerStart
    \/ ProducerStop
    \/ Create
    \/ Destroy
    \/ Suggest
    \/ GetVector2f
    \/ GetFloat

Spec == Init /\ [][Next]_vars

----------------------------------------------------------------------------
(* SpecClassify: binding suggestions of every shape, over sessions with     *)
(* and without a path-to-string resolver.                                   *)

SuggestedBindings == [action : Actions, binding : BindingPaths]

\* All lists of at most n suggested bindings.
RECURSIVE BindingLists(_)
BindingLists(n) ==
    IF n = 0 THEN {<<>>}
    ELSE LET shorter == BindingLists(n - 1)
         IN  shorter \cup {Append(l, b) : l \in {k \in shorter : Len(k) = n - 1},
                                          b \in SuggestedBindings}

\* One event that binds every filler handle to path p.
FillEvent(p) == [i \in 1..MAX_TRACKED_ACTIONS |-> [action |-> 100 + i, binding |-> p]]

ClassifyEvents ==
    BindingLists(MaxBindings)
    \cup {FillEvent(xrStringToPath("/user/hand/left/input/thumbstick")),
          FillEvent(xrStringToPath("/user/hand/left/input/thumbstick/y"))}

CreateC ==
    /\ call.op = "idle"
    /\ \E missing \in {{}, {"xrPathToString"}} :
         CreateApiLayerInstance("ok", XR_SUCCESS, missing)
    /\ UNCHANGED auxVars

SuggestC ==
    /\ CanCall
    /\ \E suggestedBindings \in ClassifyEvents, result \in ResultCodes :
         SuggestInteractionProfileBindings(suggestedBindings, result)
    /\ UNCHANGED auxVars

NextClassify ==
    \/ Return
    \/ CreateC
    \/ Destroy
    \/ SuggestC

SpecClassify == Init /\ [][NextClassify]_vars

----------------------------------------------------------------------------
(* Vocabulary of the properties.                                            *)

\* key is one of the entries of a tracked array.
Tracks(arr, key) == key \in {arr[i] : i \in DOMAIN arr}

IsGetState == call.op \in {"vector2f", "float"}

\* The forwarded call of the handler that ran, as the trace names it.
ForwardOf(op) ==
    CASE op = "vector2f" -> "g_xrGetActionStateVector2f"
      [] op = "float" -> "g_xrGetActionStateFloat"
      [] op = "suggest" -> "g_xrSuggestInteractionProfileBindings"
      [] OTHER -> "g_xrDestroyInstance"

\* The handler that ran called ReadTreadmillVelocity.
ReadSignal == \E i \in DOMAIN call.trace : call.trace[i] = "ReadTreadmillVelocity"

\* The value the handler that ran handed back, and the value forwarded.
ReturnedValue ==
    IF call.op = "vector2f" THEN call.state.y ELSE call.state.currentState
ForwardedValue ==
    IF call.op = "vector2f" THEN call.forwarded.state.y
    ELSE call.forwarded.state.currentState

\* f is in [-1.0, 1.0]
InUnitRange(f) == (0 - Scale) <= f /\ f <= Scale

\* clamp(z, -1, 1)
ClampUnit(z) == IF z < 0 - Scale THEN 0 - Scale ELSE IF z > Scale THEN Scale ELSE z

----------------------------------------------------------------------------
(* C1: when the forwarded get-state call fails, the handler (2-D or         *)
(* scalar) returns exactly that code, leaves the state as the next link     *)
(* left it, does not inject, does not read the signal and attempts no       *)
(* connection: the forwarded call is the only call it makes.                *)
C1_FailurePassedThrough ==
    (IsGetState /\ call.forwarded.result < 0) =>
        /\ call.ret = call.forwarded.result
        /\ call.state = call.forwarded.state
        /\ ~call.injected
        /\ call.trace = <<ForwardOf(call.op)>>

\* A failed forward in a state where a successful one could have injected:
\* a view is mapped, the query is for "any" hand, no bindings were seen.
C1_Witness ==
    /\ call.op = "vector2f"
    /\ call.forwarded.result < 0
    /\ g_sharedData # 0
    /\ call.getInfo.subactionPath = XR_NULL_PATH
    /\ ~g_tracked.bindingsReceived

(* C2: a 2-D query that was forwarded successfully and read a nonzero       *)
(* signal injects if and only if its handle is in the 2-D set or no         *)
(* bindings have been observed.                                             *)
C2_Vector2fInjectsIff ==
    (call.op = "vector2f" /\ call.forwarded.result >= 0 /\ call.velocity # 0) =>
        (call.injected <=>
            (Tracks(g_tracked.vec2f, call.getInfo.action) \/ ~g_tracked.bindingsReceived))

\* The fallback at work: an injection for a handle in neither set.
C2_Witness ==
    /\ call.op = "vector2f"
    /\ call.injected
    /\ ~g_tracked.bindingsReceived
    /\ ~Tracks(g_tracked.vec2f, call.getInfo.action)
    /\ call.state # call.forwarded.state

(* C3: a scalar query that was forwarded successfully and read a nonzero    *)
(* signal injects if and only if its handle is in the scalar set; with no   *)
(* bindings observed and an empty scalar set no scalar query is modified.   *)
C3_FloatInjectsIff ==
    /\ (call.op = "float" /\ call.forwarded.result >= 0 /\ call.velocity # 0) =>
           (call.injected <=> Tracks(g_tracked.floatY, call.getInfo.action))
    /\ (call.op = "float" /\ ~g_tracked.bindingsReceived /\ g_tracked.floatY = <<>>) =>
           (~call.injected /\ call.state = call.forwarded.state)

\* A scalar query in scope that read a nonzero signal before any binding
\* was seen, and was left alone.
C3_Witness ==
    /\ call.op = "float"
    /\ call.forwarded.result >= 0
    /\ call.velocity # 0
    /\ ~g_tracked.bindingsReceived
    /\ ~call.injected

(* C4: an injecting call returns clamp(forwarded value + v, -1, 1), v being *)
(* the signal it read; for v and the forwarded value in [-1, 1] the result  *)
(* is in [-1, 1]; in the 2-D operation X is returned as forwarded.          *)
C4_InjectedValueClamped ==
    (IsGetState /\ call.injected) =>
        /\ ReturnedValue = ClampUnit(ForwardedValue + call.velocity)
        /\ (InUnitRange(call.velocity) /\ InUnitRange(ForwardedValue))
               => InUnitRange(ReturnedValue)
        /\ call.op = "vector2f" => call.state.x = call.forwarded.state.x

\* An injection that the lower clamp cut, next to a forwarded X.
C4_Witness ==
    /\ call.op = "vector2f"
    /\ call.injected
    /\ InUnitRange(call.velocity)
    /\ ForwardedValue + call.velocity < 0 - Scale
    /\ call.state.x # 0

(* C5: a get-state call whose subaction path is neither the null path nor   *)
(* the left-hand path the layer resolved never injects: the forwarded       *)
(* result is returned unmodified.                                           *)
C5_OutOfScopeUntouched ==
    (IsGetState /\ call.getInfo.subactionPath # XR_NULL_PATH
                /\ call.getInfo.subactionPath # g_leftHandPath) =>
        /\ ~call.injected
        /\ call.ret = call.forwarded.result
        /\ call.state = call.forwarded.state

\* A successful right-hand query with a view mapped and the fallback armed.
C5_Witness ==
    /\ call.op = "vector2f"
    /\ call.forwarded.result >= 0
    /\ call.getInfo.subactionPath = RightHandAtom
    /\ g_leftHandPath = LeftHandAtom
    /\ g_sharedData # 0
    /\ ~g_tracked.bindingsReceived

(* C6: a get-state call that read the signal value 0.0 returns the          *)
(* forwarded result unmodified, freshness flags included, whatever the      *)
(* classification.                                                          *)
C6_ZeroSignalUntouched ==
    (IsGetState /\ ReadSignal /\ call.velocity = 0) =>
        /\ ~call.injected
        /\ call.ret = call.forwarded.result
        /\ call.state = call.forwarded.state

\* A zero read from a mapped view for a classified handle whose forwarded
\* flags are clear.
C6_Witness ==
    /\ call.op = "vector2f"
    /\ ReadSignal
    /\ call.velocity = 0
    /\ g_sharedData # 0
    /\ Tracks(g_tracked.vec2f, call.getInfo.action)
    /\ call.forwarded.state.isActive = XR_FALSE
    /\ call.forwarded.state.changedSinceLastSync = XR_FALSE

(* C7: whenever a get-state call injects, the state it returns has          *)
(* isActive and changedSinceLastSync set, also when the clamped value       *)
(* equals the forwarded one and whatever the forwarded flags were.          *)
C7_InjectionSetsFlags ==
    (IsGetState /\ call.injected) =>
        /\ call.state.isActive = XR_TRUE
        /\ call.state.changedSinceLastSync = XR_TRUE

\* An injection at the clamp bound: the value did not move, the forwarded
\* flags were clear.
C7_Witness ==
    /\ call.op = "vector2f"
    /\ call.injected
    /\ ForwardedValue = Scale
    /\ ReturnedValue = Scale
    /\ call.forwarded.state.isActive = XR_FALSE
    /\ call.forwarded.state.changedSinceLastSync = XR_FALSE

----------------------------------------------------------------------------
(* Vocabulary of the classification properties.                             *)

\* The step is a run of the suggested-bindings handler.
SuggestStep == call.op = "idle" /\ call'.op = "suggest"

\* The handles the event of the step names.
EventHandles(event) == {event[i].action : i \in DOMAIN event}

\* The strings the paths bound to handle h resolve to in the event.
BoundPaths(event, h) ==
    {xrPathToString(event[i].binding).pathStr :
        i \in {j \in DOMAIN event : /\ event[j].action = h
                                    /\ xrPathToString(event[j].binding).pr >= 0}}

\* The kinds of path the classification rule tells apart.
LeftThumbstickY == {"/user/hand/left/input/thumbstick/y"}
LeftThumbstickX == {"/user/hand/left/input/thumbstick/x"}
LeftThumbstickPlain == {"/user/hand/left/input/thumbstick"}
OfInterest == LeftThumbstickY \cup LeftThumbstickX \cup LeftThumbstickPlain

(* C8: a binding event that was forwarded successfully, with a resolver,    *)
(* classifies by the rule: a handle it binds only to left-thumbstick paths  *)
(* with the Y suffix is in the scalar set afterwards and enters no other;   *)
(* one bound only to suffix-free left-thumbstick paths is in the 2-D set    *)
(* afterwards and enters no other; one bound only to the X suffix or to     *)
(* paths that lack the left-hand path or the thumbstick marker enters no    *)
(* set.                                                                     *)
C8_ClassificationRule ==
    [][(SuggestStep /\ call'.ret >= 0 /\ g_xrPathToString # "NULL") =>
        \A h \in EventHandles(call'.suggestedBindings) :
            LET paths == BoundPaths(call'.suggestedBindings, h)
                sameVec2f == Tracks(g_tracked'.vec2f, h) <=> Tracks(g_tracked.vec2f, h)
                sameFloatY == Tracks(g_tracked'.floatY, h) <=> Tracks(g_tracked.floatY, h)
            IN  /\ (paths # {} /\ paths \subseteq LeftThumbstickY)
                       => (Tracks(g_tracked'.floatY, h) /\ sameVec2f)
                /\ (paths # {} /\ paths \subseteq LeftThumbstickPlain)
                       => (Tracks(g_tracked'.vec2f, h) /\ sameFloatY)
                /\ (paths \cap (LeftThumbstickY \cup LeftThumbstickPlain) = {})
                       => (sameVec2f /\ sameFloatY)
      ]_vars

(* C9: in every reachable state, whatever binding events came before and    *)
(* also when they bound one handle to several paths, no handle is in both   *)
(* the 2-D set and the scalar set.                                          *)
C9_AtMostOneSet ==
    \A h \in Actions \cup FillerActions :
        ~(Tracks(g_tracked.vec2f, h) /\ Tracks(g_tracked.floatY, h))

(* What the classification does keep, next to C9: a handle enters the      *)
(* scalar set only in an event that binds it to a left-thumbstick path     *)
(* with the Y suffix, and the 2-D set only in an event that binds it to a  *)
(* left-thumbstick path without the X or Y suffix; a handle is in both     *)
(* sets only after it was bound to paths of both kinds.                    *)
C9_EntersByOwnKind ==
    [][\A h \in Actions \cup FillerActions :
          /\ (Tracks(g_tracked'.floatY, h) /\ ~Tracks(g_tracked.floatY, h))
                 => /\ SuggestStep
                    /\ BoundPaths(call'.suggestedBindings, h) \cap LeftThumbstickY # {}
          /\ (Tracks(g_tracked'.vec2f, h) /\ ~Tracks(g_tracked.vec2f, h))
                 => /\ SuggestStep
                    /\ BoundPaths(call'.suggestedBindings, h) \cap LeftThumbstickPlain # {}
      ]_vars

\* One event bound a handle to the Y path and to the suffix-free path, and
\* the handle is in both sets.
BoundToBothKinds ==
    /\ call.op = "suggest"
    /\ \E h \in EventHandles(call.suggestedBindings) :
          /\ BoundPaths(call.suggestedBindings, h) \cap LeftThumbstickY # {}
          /\ BoundPaths(call.suggestedBindings, h) \cap LeftThumbstickPlain # {}
          /\ Tracks(g_tracked.vec2f, h)
          /\ Tracks(g_tracked.floatY, h)

(* C10: the suggested-bindings handler forwards the event exactly once, as  *)
(* the first thing it does and so before it touches the classification;    *)
(* it returns exactly what the forwarded call returned; when the forwarded  *)
(* call failed, both sets and the flag are as they were.                    *)
C10_ForwardFirstOnce ==
    [][SuggestStep =>
        LET trace == call'.trace
            forward == ForwardOf("suggest")
        IN  /\ Len(trace) >= 1
            /\ trace[1] = forward
            /\ \A i \in 2..Len(trace) : trace[i] # forward
            /\ call'.ret = call'.forwarded.result
            /\ call'.forwarded.result < 0 => g_tracked' = g_tracked
      ]_vars

\* A failed forward of an event that names a left-thumbstick path, with a
\* resolver at hand: nothing was classified.
C10_Witness ==
    /\ call.op = "suggest"
    /\ call.forwarded.result < 0
    /\ g_xrPathToString # "NULL"
    /\ \E h \in EventHandles(call.suggestedBindings) :
          BoundPaths(call.suggestedBindings, h) \cap OfInterest # {}
    /\ ~g_tracked.bindingsReceived

----------------------------------------------------------------------------
(* SpecChain: the life cycle of sessions over every answer of the next      *)
(* chain link - a chain node that is missing or incomplete, a create that   *)
(* fails, a lookup that lacks one name - with the hooks called whenever the *)
(* application holds them, torn-down sessions included.                     *)

\* The names TreadmillLayer_xrCreateApiLayerInstance looks up.
LookupNames ==
    {"xrDestroyInstance", "xrPathToString", "xrStringToPath",
     "xrSuggestInteractionProfileBindings", "xrGetActionStateVector2f",
     "xrGetActionStateFloat"}

\* What the next link's lookup may lack: nothing, or one name.
MissingSets == {{}} \cup {{n} : n \in LookupNames}

\* The state the next link hands to the 2-D get-state calls of SpecChain.
ChainState ==
    [x |-> 0 - 1, y |-> 0, isActive |-> XR_FALSE, changedSinceLastSync |-> XR_FALSE]

\* The stored pointer a hook forwards through.
ForwardPointer(op) ==
    CASE op = "destroy" -> g_xrDestroyInstance
      [] op = "suggest" -> g_xrSuggestInteractionProfileBindings
      [] op = "vector2f" -> g_xrGetActionStateVector2f
      [] op = "float" -> g_xrGetActionStateFloat

\* TreadmillLayer_xrGetInstanceProcAddr hands out the hook for each of these
\* whatever the stored pointers are.
Hooks == {"destroy", "suggest", "vector2f", "float"}

CreateL ==
    /\ call.op = "idle"
    /\ \E nextInfo \in {"null", "noptrs", "ok"}, result \in ResultCodes,
          missing \in MissingSets :
         CreateApiLayerInstance(nextInfo, result, missing)
    /\ UNCHANGED auxVars

\* Teardown of the live session.
DestroyL ==
    /\ CanCall
    /\ \E result \in ResultCodes : DestroyInstance(result)
    /\ cleared' = (g_tracked # NoTracked)
    /\ suggested' = FALSE
    /\ UNCHANGED <<mapFails, lastOpen, threadVars>>

SuggestL ==
    /\ CanCall
    /\ \E suggestedBindings \in ProbeEvents, result \in ResultCodes :
         SuggestInteractionProfileBindings(suggestedBindings, result)
    /\ suggested' = (suggested \/ call'.ret >= 0)
    /\ UNCHANGED <<mapFails, lastOpen, cleared, threadVars>>

GetVector2fL ==
    /\ CanCall
    /\ \E getInfo \in GetInfos, result \in ResultCodes :
         GetActionStateVector2f(getInfo, result, ChainState)
    /\ UNCHANGED auxVars

\* The application calls a hook whose stored pointer is null: the handler
\* calls through it (lines 173, 227, 268, 310 test nothing).
InvokeUnresolved ==
    /\ CanCall
    /\ \E op \in Hooks :
         /\ ForwardPointer(op) = "NULL"
         /\ call' = [NoCall EXCEPT !.op = "fault", !.trace = <<ForwardOf(op)>>]
    /\ UNCHANGED <<chainVars, g_tracked, readerVars, envVars, auxVars>>

\* The application calls a hook it kept from a session that was torn down:
\* the handler forwards through the pointer stored for that session, and
\* the next link refuses the dead handle.
InvokeAfterTeardown ==
    /\ call.op = "idle"
    /\ g_instance = XR_NULL_HANDLE
    /\ \/ \E suggestedBindings \in ProbeEvents :
            SuggestInteractionProfileBindings(suggestedBindings, XR_ERROR_HANDLE_INVALID)
       \/ \E getInfo \in GetInfos :
            GetActionStateVector2f(getInfo, XR_ERROR_HANDLE_INVALID, ChainState)
    /\ UNCHANGED auxVars

NextChain ==
    \/ Return
    \/ CreateL
    \/ DestroyL
    \/ SuggestL
    \/ GetVector2fL
    \/ InvokeUnresolved
    \/ InvokeAfterTeardown

SpecChain == Init /\ [][NextChain]_vars

----------------------------------------------------------------------------
(* C11: teardown clears both classification sets and the observed flag:     *)
(* when the destroy handler has run they are empty and false, they stay so  *)
(* while no session is live, and a session created afterwards starts with  *)
(* them empty and false whatever the sessions before it classified.         *)
C11_TeardownClears ==
    /\ call.op = "destroy" => g_tracked = NoTracked
    /\ g_instance = XR_NULL_HANDLE => g_tracked = NoTracked
    /\ call.op = "create" => g_tracked = NoTracked

\* A session has just been created after the teardown of one that had
\* classified.
C11_Witness ==
    /\ call.op = "create"
    /\ g_instance # XR_NULL_HANDLE
    /\ cleared
    /\ g_tracked = NoTracked

----------------------------------------------------------------------------
(* SpecReader: the shared-memory reader over time, with a producer that     *)
(* comes and goes and a MapViewOfFile that fails for a while.  The session  *)
(* keeps issuing one 2-D query for "any" hand; sessions end and start.      *)

\* OpenFileMappingA is among the calls of a trace.
Opened(trace) == \E i \in DOMAIN trace : trace[i] = "OpenFileMappingA"

\* lastOpen follows the calls of OpenFileMappingA: when, and whether the
\* reader was left without a view.
ObserveOpen ==
    lastOpen' = IF Opened(call'.trace)
                THEN [at |-> now, failed |-> g_sharedData' = 0]
                ELSE lastOpen

\* MapViewOfFile, where the step gets to it, fails exactly under mapFails.
MapAsPressure ==
    (g_sharedMemHandle = 0 /\ g_sharedMemHandle' # 0)
        => ((g_sharedData' = 0) <=> mapFails)

\* The query the session keeps issuing.
ReaderGetInfo == [action |-> 1, subactionPath |-> XR_NULL_PATH]

PressureStarts ==
    /\ call.op = "idle"
    /\ ~mapFails
    /\ mapFails' = TRUE
    /\ UNCHANGED <<chainVars, g_tracked, readerVars, envVars, call, lastOpen, sessionVars, threadVars>>

PressureEnds ==
    /\ call.op = "idle"
    /\ mapFails
    /\ mapFails' = FALSE
    /\ UNCHANGED <<chainVars, g_tracked, readerVars, envVars, call, lastOpen, sessionVars, threadVars>>

CreateR ==
    /\ call.op = "idle"
    /\ CreateApiLayerInstance("ok", XR_SUCCESS, {})
    /\ MapAsPressure
    /\ ObserveOpen
    /\ UNCHANGED <<mapFails, sessionVars, threadVars>>

DestroyR ==
    /\ CanCall
    /\ \E result \in ResultCodes : DestroyInstance(result)
    /\ UNCHANGED auxVars

ReadR ==
    /\ CanCall
    /\ GetActionStateVector2f(ReaderGetInfo, XR_SUCCESS, ChainState)
    /\ MapAsPressure
    /\ ObserveOpen
    /\ UNCHANGED <<mapFails, sessionVars, threadVars>>

NextReader ==
    \/ Return
    \/ Tick
    \/ ProducerStart
    \/ ProducerStop
    \/ PressureStarts
    \/ PressureEnds
    \/ CreateR
    \/ DestroyR
    \/ ReadR

\* The application keeps calling: it comes back from every call, issues
\* its query again, and starts a session when none is live.
SpecReader ==
    /\ Init
    /\ [][NextReader]_vars
    /\ WF_vars(Return)
    /\ WF_vars(ReadR)
    /\ WF_vars(CreateR)

----------------------------------------------------------------------------
(* C12: every call of OpenFileMappingA - from a read or from session        *)
(* creation, successful or not - records the tick count as the last-attempt *)
(* time; two consecutive failed attempts are at least SHARED_MEM_RETRY_MS   *)
(* apart; a read issued without a handle that long after the last attempt   *)
(* does attempt.                                                            *)
C12_ReconnectCooldown ==
    [][(call.op = "idle" /\ call'.op \in {"create", "vector2f"}) =>
        /\ Opened(call'.trace) => g_lastSharedMemAttempt' = now
        /\ (Opened(call'.trace) /\ g_sharedData' = 0 /\ lastOpen.at >= 0 /\ lastOpen.failed)
               => now - lastOpen.at >= SHARED_MEM_RETRY_MS
        /\ (call'.op = "vector2f" /\ g_sharedMemHandle = 0
                /\ (lastOpen.at < 0 \/ now - lastOpen.at >= SHARED_MEM_RETRY_MS)
                /\ now >= SHARED_MEM_RETRY_MS)
               => Opened(call'.trace)
      ]_vars

(* C13: from any state of a live session in which the reader has no view    *)
(* and the retry interval has elapsed - never connected, an open that       *)
(* failed, an open whose MapViewOfFile failed, a view closed by teardown -  *)
(* if from then on the producer's region exists and can be mapped, and      *)
(* reads keep being issued, the reader eventually holds a view.             *)
C13_Recovers ==
    []((/\ g_instance # XR_NULL_HANDLE
        /\ g_sharedData = 0
        /\ now - g_lastSharedMemAttempt >= SHARED_MEM_RETRY_MS
        /\ [](regionExists /\ ~mapFails))
       => <>(g_sharedData # 0))

(* C14: when the next link's create succeeded and its lookup did not        *)
(* resolve one of the forwarding entry points the hooks need (destroy,      *)
(* suggest-bindings, 2-D get-state, scalar get-state), session creation     *)
(* returns XR_ERROR_INITIALIZATION_FAILED and no session is live.           *)
C14_ResolutionFailureFatal ==
    (/\ call.op = "create"
     /\ call.trace # <<>>
     /\ call.forwarded.result >= 0
     /\ \E op \in Hooks : ForwardPointer(op) = "NULL")
        => /\ call.ret = XR_ERROR_INITIALIZATION_FAILED
           /\ g_instance = XR_NULL_HANDLE

(* C15: over every sequence of create, suggest-bindings, get-state and      *)
(* destroy calls no handler calls through a stored forwarding pointer that  *)
(* is null or that belongs to a session torn down; once teardown has run    *)
(* the stored pointers are unusable (null) until the next create.           *)
C15_OnlyLivePointers ==
    /\ call.op # "fault"
    /\ call.op \in {"suggest", "vector2f", "float"} => g_instance # XR_NULL_HANDLE
    /\ g_instance = XR_NULL_HANDLE => \A op \in Hooks : ForwardPointer(op) = "NULL"

(* C16: a read with a view mapped returns 0.0 when the record's active flag  *)
(* is zero and the record's velocity as it stands when the flag is nonzero, *)
(* and either way leaves handle, view and last-attempt time alone and makes *)
(* no connection attempt; a read without a view inside the retry interval   *)
(* returns 0.0 and makes no attempt.                                        *)
C16_ReadResults ==
    [][(call.op = "idle" /\ call'.op = "vector2f" /\ ReadSignal') =>
        /\ (g_sharedData # 0 /\ call'.env.rec.active = 0)
               => /\ call'.velocity = 0
                  /\ ~Opened(call'.trace)
                  /\ readerVars' = readerVars
        /\ (g_sharedData # 0 /\ call'.env.rec.active # 0)
               => /\ call'.velocity = call'.env.rec.velocity
                  /\ ~Opened(call'.trace)
                  /\ readerVars' = readerVars
        /\ (g_sharedData = 0 /\ now - g_lastSharedMemAttempt < SHARED_MEM_RETRY_MS)
               => /\ call'.velocity = 0
                  /\ ~Opened(call'.trace)
                  /\ readerVars' = readerVars
      ]_vars

\* A read from a view that was mapped before the call, of a paused
\* producer's record that carries a nonzero velocity: 0.0 came back and the
\* view is still mapped.
C16_Witness ==
    /\ call.op = "vector2f"
    /\ ReadSignal
    /\ ~Opened(call.trace)
    /\ g_sharedData # 0
    /\ call.env.rec.active = 0
    /\ call.env.rec.velocity # 0
    /\ call.velocity = 0

(* C17: when the next link's lookup provides no xrPathToString, session      *)
(* creation still succeeds; in that session every binding event leaves both *)
(* sets empty and the flag false, so every 2-D query that read a nonzero    *)
(* signal injects by the fallback.                                          *)
C17_NoResolverFallback ==
    /\ (/\ call.op = "create"
        /\ call.trace # <<>>
        /\ call.forwarded.result >= 0
        /\ g_xrPathToString = "NULL")
           => (call.ret = XR_SUCCESS /\ g_instance # XR_NULL_HANDLE)
    /\ (g_instance # XR_NULL_HANDLE /\ g_xrPathToString = "NULL")
           => /\ g_tracked = NoTracked
              /\ (call.op = "vector2f" /\ call.forwarded.result >= 0 /\ call.velocity # 0)
                     => (call.injected /\ call.state # call.forwarded.state)

\* A 2-D query injected in a session without resolver that had forwarded a
\* binding event before.
C17_Witness ==
    /\ call.op = "vector2f"
    /\ g_instance # XR_NULL_HANDLE
    /\ g_xrPathToString = "NULL"
    /\ suggested
    /\ call.velocity # 0
    /\ call.injected

-----------------------------------------------------------------------------
(* The handlers step by step, for calls made from several threads.  Each    *)
(* action is one thread's next step: a call out of the layer, a load or a   *)
(* store of a global, an entry to or an exit from the critical section.     *)
(* The reader, the teardown's CloseSharedMemory and the forwarded calls     *)
(* run without the lock; the classification is touched only inside it.      *)

\* OpenFileMappingA calls by handler threads that the process's handle table
\* serves; a further call fails.
MaxOpens == 2

\* The binding event and the 2-D query the threads issue.
ThreadEvent ==
    <<[action |-> 1, binding |-> xrStringToPath("/user/hand/left/input/thumbstick/y")],
      [action |-> 2, binding |-> xrStringToPath("/user/hand/left/input/thumbstick")]>>
ThreadQuery == 2

\* What a handler thread's step leaves alone besides the globals it names.
outsideThreads == <<call, mapFails, lastOpen, sessionVars, envVars>>

\* Positions of a thread inside a call through a forwarding pointer, inside
\* ReadTreadmillVelocity (OpenSharedMemory included) and inside the
\* teardown's CloseSharedMemory.
ForwardPcs == {"gs_forward", "sg_forward", "sg_resolve", "ds_forward"}
ReaderPcs == {"rd_test", "rd_due", "rd_stamp", "os_test", "os_open", "os_map", "rd_ptr", "rd_deref"}
ClosePcs == {"ds_unmap", "ds_null", "ds_close"}

At(t, pc) == threads[t].pc = pc
Goto(t, pc) == threads' = [threads EXCEPT ![t].pc = pc]

\* xrCreateApiLayerInstance, called before the application starts the
\* threads that use the instance.  Its OpenFileMappingA and MapViewOfFile
\* return the handle and the view numbered 1; as in the threads' steps, a
\* handle that was opened is mapped.
CreateT ==
    /\ \A t \in Threads : At(t, "idle")
    /\ ~(1 \in os.handles \cup os.views)
    /\ CreateApiLayerInstance("ok", XR_SUCCESS, {})
    /\ g_sharedMemHandle' # 0 <=> g_sharedData' # 0
    /\ os' = [os EXCEPT !.handles = IF g_sharedMemHandle' # g_sharedMemHandle THEN @ \cup {1} ELSE @,
                        !.views = IF g_sharedData' # g_sharedData THEN @ \cup {1} ELSE @]
    /\ UNCHANGED <<mapFails, lastOpen, sessionVars, g_cs, threads, committed>>

\* ---- TreadmillLayer_xrGetActionStateVector2f ----

\* The application calls the handler: g_xrGetActionStateVector2f(...) runs.
GsCall(t) ==
    /\ CanCall
    /\ At(t, "idle")
    /\ Goto(t, "gs_forward")
    /\ UNCHANGED <<chainVars, g_tracked, readerVars, outsideThreads, g_cs, os, committed>>

\* The forwarded call returned success for a query in scope.
GsForwarded(t) ==
    /\ At(t, "gs_forward")
    /\ Goto(t, "rd_test")
    /\ UNCHANGED <<chainVars, g_tracked, readerVars, outsideThreads, g_cs, os, committed>>

\* if (!g_sharedData)
RdTest(t) ==
    /\ At(t, "rd_test")
    /\ Goto(t, IF g_sharedData = 0 THEN "rd_due" ELSE "rd_ptr")
    /\ UNCHANGED <<chainVars, g_tracked, readerVars, outsideThreads, g_cs, os, committed>>

\* if (now - g_lastSharedMemAttempt >= SHARED_MEM_RETRY_MS)
RdDue(t) ==
    /\ At(t, "rd_due")
    /\ Goto(t, IF now - g_lastSharedMemAttempt >= SHARED_MEM_RETRY_MS
               THEN "rd_stamp" ELSE "rd_ptr")
    /\ UNCHANGED <<chainVars, g_tracked, readerVars, outsideThreads, g_cs, os, committed>>

\* g_lastSharedMemAttempt = now; OpenSharedMemory();
RdStamp(t) ==
    /\ At(t, "rd_stamp")
    /\ g_lastSharedMemAttempt' = now
    /\ Goto(t, "os_test")
    /\ UNCHANGED <<chainVars, g_tracked, g_sharedMemHandle, g_sharedData, outsideThreads,
                   g_cs, os, committed>>

\* OpenSharedMemory: if (g_sharedMemHandle) return;
OsTest(t) ==
    /\ At(t, "os_test")
    /\ threads' = [threads EXCEPT ![t].pc = IF g_sharedMemHandle # 0 THEN "rd_ptr" ELSE "os_open",
                                  ![t].seen = (g_sharedMemHandle # 0)]
    /\ UNCHANGED <<chainVars, g_tracked, readerVars, outsideThreads, g_cs, os, committed>>

\* g_sharedMemHandle = OpenFileMappingA(...); if (g_sharedMemHandle)
OsOpen(t) ==
    /\ At(t, "os_open")
    /\ LET h == IF regionExists /\ os.opens < MaxOpens THEN os.opens + 2 ELSE 0
       IN  /\ g_sharedMemHandle' = h
           /\ os' = IF h # 0
                    THEN [os EXCEPT !.handles = @ \cup {h}, !.opens = @ + 1]
                    ELSE os
           /\ threads' = [threads EXCEPT ![t].pc = IF h # 0 THEN "os_map" ELSE "rd_ptr",
                                         ![t].h = h]
    /\ UNCHANGED <<chainVars, g_tracked, g_sharedData, g_lastSharedMemAttempt,
                   outsideThreads, g_cs, committed>>

\* g_sharedData = (TreadmillSharedData*)MapViewOfFile(g_sharedMemHandle, ...)
\* The view is numbered after the handle this thread opened.
OsMap(t) ==
    /\ At(t, "os_map")
    /\ LET v == IF g_sharedMemHandle \in os.handles THEN threads[t].h ELSE 0
       IN  /\ g_sharedData' = v
           /\ os' = IF v # 0 THEN [os EXCEPT !.views = @ \cup {v}] ELSE os
    /\ Goto(t, "rd_ptr")
    /\ UNCHANGED <<chainVars, g_tracked, g_sharedMemHandle, g_lastSharedMemAttempt,
                   outsideThreads, g_cs, committed>>

\* if (g_sharedData && ...): the pointer is loaded.  A null pointer makes
\* the velocity 0 and the handler returns the forwarded state.
RdPtr(t) ==
    /\ At(t, "rd_ptr")
    /\ threads' = [threads EXCEPT ![t].pc = IF g_sharedData # 0 THEN "rd_deref" ELSE "gs_done",
                                  ![t].p = g_sharedData,
                                  ![t].half = (threads[t].seen /\ g_sharedData = 0)]
    /\ UNCHANGED <<chainVars, g_tracked, readerVars, outsideThreads, g_cs, os, committed>>

\* g_sharedData->active, g_sharedData->velocity through the loaded pointer:
\* an access violation when the view is no longer mapped, otherwise an
\* active record with a nonzero velocity.
RdDeref(t) ==
    /\ At(t, "rd_deref")
    /\ Goto(t, IF threads[t].p \in os.views THEN "dc_enter" ELSE "fault")
    /\ UNCHANGED <<chainVars, g_tracked, readerVars, outsideThreads, g_cs, os, committed>>

\* EnterCriticalSection(&g_cs) before the decision.
DcEnter(t) ==
    /\ At(t, "dc_enter")
    /\ g_cs = 0
    /\ g_cs' = t
    /\ threads' = [threads EXCEPT ![t].pc = "dc_contains", ![t].snap = committed]
    /\ UNCHANGED <<chainVars, g_tracked, readerVars, outsideThreads, os, committed>>

\* if (ContainsAction(g_tracked.vec2f, g_tracked.vec2fCount, getInfo->action))
DcContains(t) ==
    /\ At(t, "dc_contains")
    /\ threads' = [threads EXCEPT ![t].pc = "dc_flag",
                                  ![t].hit = ContainsAction(g_tracked.vec2f, ThreadQuery)]
    /\ UNCHANGED <<chainVars, g_tracked, readerVars, outsideThreads, g_cs, os, committed>>

\* shouldInject = TRUE; else if (!g_tracked.bindingsReceived) shouldInject = TRUE;
DcFlag(t) ==
    /\ At(t, "dc_flag")
    /\ threads' = [threads EXCEPT ![t].pc = "dc_leave",
                                  ![t].inject = (threads[t].hit \/ ~g_tracked.bindingsReceived)]
    /\ UNCHANGED <<chainVars, g_tracked, readerVars, outsideThreads, g_cs, os, committed>>

\* LeaveCriticalSection(&g_cs); the state is rewritten or not, by shouldInject.
DcLeave(t) ==
    /\ At(t, "dc_leave")
    /\ g_cs' = IF g_cs = t THEN 0 ELSE g_cs
    /\ Goto(t, "gs_done")
    /\ UNCHANGED <<chainVars, g_tracked, readerVars, outsideThreads, os, committed>>

\* return result;
GsReturn(t) ==
    /\ At(t, "gs_done")
    /\ threads' = [threads EXCEPT ![t] = IdleThread]
    /\ UNCHANGED <<chainVars, g_tracked, readerVars, outsideThreads, g_cs, os, committed>>

\* ---- TreadmillLayer_xrSuggestInteractionProfileBindings ----

\* The application calls the handler: the forwarded call runs.
SgCall(t) ==
    /\ CanCall
    /\ At(t, "idle")
    /\ Goto(t, "sg_forward")
    /\ UNCHANGED <<chainVars, g_tracked, readerVars, outsideThreads, g_cs, os, committed>>

\* The forwarded call succeeded and g_xrPathToString is there.
SgForwarded(t) ==
    /\ At(t, "sg_forward")
    /\ Goto(t, IF g_xrPathToString # "NULL" THEN "sg_enter" ELSE "sg_done")
    /\ UNCHANGED <<chainVars, g_tracked, readerVars, outsideThreads, g_cs, os, committed>>

SgEnter_NoLock(t) ==
    /\ At(t, "sg_enter")
    /\ threads' = [threads EXCEPT ![t].pc = "sg_resolve", ![t].i = 1]
    /\ UNCHANGED <<chainVars, g_tracked, readerVars, outsideThreads, g_cs, os, committed>>

\* EnterCriticalSection(&g_cs) before the loop.
SgEnter(t) ==
    /\ At(t, "sg_enter")
    /\ g_cs = 0
    /\ g_cs' = t
    /\ threads' = [threads EXCEPT ![t].pc = "sg_resolve", ![t].i = 1]
    /\ UNCHANGED <<chainVars, g_tracked, readerVars, outsideThreads, os, committed>>

\* g_xrPathToString(instance, binding, ...) for binding i returned.
SgResolve(t) ==
    /\ At(t, "sg_resolve")
    /\ Goto(t, "sg_track")
    /\ UNCHANGED <<chainVars, g_tracked, readerVars, outsideThreads, g_cs, os, committed>>

\* The rest of the loop body for binding i, and i++.
SgTrack(t) ==
    /\ At(t, "sg_track")
    /\ LET b == ThreadEvent[threads[t].i]
       IN  g_tracked' = TrackBinding(g_tracked, b.action, xrPathToString(b.binding).pathStr)
    /\ threads' = [threads EXCEPT ![t].pc = IF threads[t].i < Len(ThreadEvent)
                                            THEN "sg_resolve" ELSE "sg_leave",
                                  ![t].i = @ + 1]
    /\ UNCHANGED <<chainVars, readerVars, outsideThreads, g_cs, os, committed>>

\* LeaveCriticalSection(&g_cs) after the loop: the event is whole.
SgLeave(t) ==
    /\ At(t, "sg_leave")
    /\ g_cs' = IF g_cs = t THEN 0 ELSE g_cs
    /\ committed' = g_tracked
    /\ Goto(t, "sg_done")
    /\ UNCHANGED <<chainVars, g_tracked, readerVars, outsideThreads, os>>

\* return result;
SgReturn(t) ==
    /\ At(t, "sg_done")
    /\ threads' = [threads EXCEPT ![t] = IdleThread]
    /\ UNCHANGED <<chainVars, g_tracked, readerVars, outsideThreads, g_cs, os, committed>>

\* ---- TreadmillLayer_xrDestroyInstance ----

\* The application calls the handler: CloseSharedMemory() begins.  An
\* instance is destroyed by one call.
DsCall(t) ==
    /\ CanCall
    /\ At(t, "idle")
    /\ \A u \in Threads : threads[u].pc \notin {"ds_unmap", "ds_null", "ds_close", "ds_enter",
                                                "ds_clear", "ds_leave"}
    /\ Goto(t, "ds_unmap")
    /\ UNCHANGED <<chainVars, g_tracked, readerVars, outsideThreads, g_cs, os, committed>>

\* if (g_sharedData) { UnmapViewOfFile(g_sharedData);
DsUnmap(t) ==
    /\ At(t, "ds_unmap")
    /\ os' = [os EXCEPT !.views = @ \ {g_sharedData}]
    /\ Goto(t, IF g_sharedData # 0 THEN "ds_null" ELSE "ds_close")
    /\ UNCHANGED <<chainVars, g_tracked, readerVars, outsideThreads, g_cs, committed>>

\* g_sharedData = NULL; }
DsNull(t) ==
    /\ At(t, "ds_null")
    /\ g_sharedData' = 0
    /\ Goto(t, "ds_close")
    /\ UNCHANGED <<chainVars, g_tracked, g_sharedMemHandle, g_lastSharedMemAttempt,
                   outsideThreads, g_cs, os, committed>>

\* if (g_sharedMemHandle) { CloseHandle(g_sharedMemHandle); g_sharedMemHandle = NULL; }
DsClose(t) ==
    /\ At(t, "ds_close")
    /\ os' = [os EXCEPT !.handles = @ \ {g_sharedMemHandle}]
    /\ g_sharedMemHandle' = 0
    /\ Goto(t, "ds_enter")
    /\ UNCHANGED <<chainVars, g_tracked, g_sharedData, g_lastSharedMemAttempt,
                   outsideThreads, g_cs, committed>>

\* EnterCriticalSection(&g_cs);
DsEnter(t) ==
    /\ At(t, "ds_enter")
    /\ g_cs = 0
    /\ g_cs' = t
    /\ Goto(t, "ds_clear")
    /\ UNCHANGED <<chainVars, g_tracked, readerVars, outsideThreads, os, committed>>

\* memset(&g_tracked, 0, sizeof(g_tracked));
DsClear(t) ==
    /\ At(t, "ds_clear")
    /\ g_tracked' = NoTracked
    /\ committed' = NoTracked
    /\ Goto(t, "ds_leave")
    /\ UNCHANGED <<chainVars, readerVars, outsideThreads, g_cs, os>>

\* LeaveCriticalSection(&g_cs); g_instance = XR_NULL_HANDLE; and the
\* forwarded destroy runs.
DsLeave(t) ==
    /\ At(t, "ds_leave")
    /\ g_cs' = 0
    /\ g_instance' = XR_NULL_HANDLE
    /\ Goto(t, "ds_forward")
    /\ UNCHANGED <<g_nextGetInstanceProcAddr, g_xrDestroyInstance, g_xrPathToString,
                   g_xrStringToPath, g_xrSuggestInteractionProfileBindings,
                   g_xrGetActionStateFloat, g_xrGetActionStateVector2f, g_leftHandPath,
                   g_tracked, readerVars, outsideThreads, os, committed>>

\* return g_xrDestroyInstance(instance);
DsForwarded(t) ==
    /\ At(t, "ds_forward")
    /\ threads' = [threads EXCEPT ![t] = IdleThread]
    /\ UNCHANGED <<chainVars, g_tracked, readerVars, outsideThreads, g_cs, os, committed>>

NextThreads ==
    \/ Return
    \/ Tick
    \/ ProducerStart
    \/ ProducerStop
    \/ CreateT
    \/ \E t \in Threads : GsCall(t)
    \/ \E t \in Threads : GsForwarded(t)
    \/ \E t \in Threads : RdTest(t)
    \/ \E t \in Threads : RdDue(t)
    \/ \E t \in Threads : RdStamp(t)
    \/ \E t \in Threads : OsTest(t)
    \/ \E t \in Threads : OsOpen(t)
    \/ \E t \in Threads : OsMap(t)
    \/ \E t \in Threads : RdPtr(t)
    \/ \E t \in Threads : RdDeref(t)
    \/ \E t \in Threads : DcEnter(t)
    \/ \E t \in Threads : DcContains(t)
    \/ \E t \in Threads : DcFlag(t)
    \/ \E t \in Threads : DcLeave(t)
    \/ \E t \in Threads : GsReturn(t)
    \/ \E t \in Threads : SgCall(t)
    \/ \E t \in Threads : SgForwarded(t)
    \/ \E t \in Threads : SgEnter(t)
    \/ \E t \in Threads : SgResolve(t)
    \/ \E t \in Threads : SgTrack(t)
    \/ \E t \in Threads : SgLeave(t)
    \/ \E t \in Threads : SgReturn(t)
    \/ \E t \in Threads : DsCall(t)
    \/ \E t \in Threads : DsUnmap(t)
    \/ \E t \in Threads : DsNull(t)
    \/ \E t \in Threads : DsClose(t)
    \/ \E t \in Threads : DsEnter(t)
    \/ \E t \in Threads : DsClear(t)
    \/ \E t \in Threads : DsLeave(t)
    \/ \E t \in Threads : DsForwarded(t)

SpecThreads == Init /\ [][NextThreads]_vars

-----------------------------------------------------------------------------
(* Claims about the handlers under concurrent calls.                        *)

(* C18: in every reachable state in which a thread is executing a forwarded *)
(* call (suggest-bindings, path-to-string resolution, get-state, destroy)   *)
(* or a signal read, that thread does not hold the classification lock.     *)
C18_LockNotHeldAcrossCalls ==
    \A t \in Threads : threads[t].pc \in ForwardPcs \cup ReaderPcs => g_cs # t

\* The same for every call but the path-to-string resolution of the scan.
C18_OutsideTheScan ==
    \A t \in Threads : threads[t].pc \in (ForwardPcs \cup ReaderPcs) \ {"sg_resolve"} => g_cs # t

\* No thread has read through a pointer whose view was unmapped.
C19_NoUseAfterUnmap == \A t \in Threads : threads[t].pc # "fault"

\* Once no thread is inside the reader or CloseSharedMemory, the process
\* holds the stored handle and the stored view and no other.
C19_OneHandleOneView ==
    (\A t \in Threads : threads[t].pc \notin ReaderPcs \cup ClosePcs)
        => /\ os.handles = {g_sharedMemHandle} \ {0}
           /\ os.views = {g_sharedData} \ {0}

\* No thread has found the handle stored and then the pointer null within
\* one read.
C19_NeverHalfUpdated == \A t \in Threads : ~threads[t].half

(* C19: for every interleaving of threads executing get-state reads,        *)
(* reconnect attempts and session teardown, the stored mapping pointer is   *)
(* never dereferenced after it was unmapped, racing reconnect attempts      *)
(* leave exactly one open handle and one mapping, and the pair (handle,     *)
(* pointer) is never observed half-updated.                                 *)
C19_ReaderSafeUnderConcurrency ==
    /\ C19_NoUseAfterUnmap
    /\ C19_OneHandleOneView
    /\ C19_NeverHalfUpdated

\* Positions of a thread between the first and the last mutation of one
\* event, and between the loads of one decision.
EventPcs == {"sg_resolve", "sg_track", "sg_leave", "ds_clear"}
DecisionPcs == {"dc_contains", "dc_flag", "dc_leave"}

(* C20: the classification differs from what the last whole event left      *)
(* only while the thread making the next event holds the lock, one hold     *)
(* spanning the event; a get-state thread inside its decision sees a whole  *)
(* classification, and the decision it takes is the one that the            *)
(* classification whole at its entry gives.                                 *)
C20_AtomicClassification ==
    /\ g_tracked # committed
           => \E u \in Threads : g_cs = u /\ threads[u].pc \in EventPcs
    /\ \A u \in Threads : threads[u].pc \in EventPcs => g_cs = u
    /\ \A t \in Threads :
           threads[t].pc \in DecisionPcs => (g_cs = t /\ g_tracked = committed)
    /\ \A t \in Threads :
           threads[t].pc = "dc_leave"
               => threads[t].inject = ShouldInjectVector2f(threads[t].snap, ThreadQuery)

\* A thread took its decision on the classification a whole event left,
\* while the other thread waits at the lock with the next event.
C20_Witness ==
    \E t, u \in Threads :
        /\ threads[t].pc = "dc_leave"
        /\ threads[t].snap.bindingsReceived
        /\ threads[t].inject
        /\ threads[u].pc = "sg_enter"

\* A thread waits at the lock for its decision while the other is half way
\* through an event.
C20_ReaderWaits ==
    \E t, u \in Threads :
        /\ threads[t].pc = "dc_enter"
        /\ threads[u].pc = "sg_resolve"
        /\ threads[u].i = 2
        /\ g_tracked # committed

-----------------------------------------------------------------------------
(* Claims about the flag, the teardown and the storage of the sets.         *)

\* Some binding of the event resolves to a left-thumbstick path.
HasBindingOfInterest(event) ==
    \E h \in EventHandles(event) : BoundPaths(event, h) \cap OfInterest # {}

C21_SetOnlyByInterest ==
    [][(~g_tracked.bindingsReceived /\ g_tracked'.bindingsReceived)
           => (SuggestStep /\ HasBindingOfInterest(call'.suggestedBindings))
      ]_vars

PositionOf(name) ==
    IF \E i \in DOMAIN call.trace : call.trace[i] = name
    THEN CHOOSE i \in DOMAIN call.trace : call.trace[i] = name
    ELSE 0

(* C22: when the session-destroy handler has run, it closed the reader's    *)
(* mapping and cleared the classification before it forwarded the destroy,  *)
(* it forwarded the destroy exactly once, it returned exactly the next      *)
(* link's result, and neither a view nor a handle is open, whether the      *)
(* forwarded destroy succeeded or failed.                                   *)
C22_TeardownOrder ==
    call.op = "destroy"
        => /\ Cardinality({i \in DOMAIN call.trace : call.trace[i] = "g_xrDestroyInstance"}) = 1
           /\ 0 < PositionOf("CloseSharedMemory")
           /\ PositionOf("CloseSharedMemory") < PositionOf("g_xrDestroyInstance")
           /\ 0 < PositionOf("LeaveCriticalSection")
           /\ PositionOf("LeaveCriticalSection") < PositionOf("g_xrDestroyInstance")
           /\ call.ret = call.forwarded.result
           /\ g_sharedMemHandle = 0
           /\ g_sharedData = 0
           /\ g_tracked = NoTracked

\* The teardown of a session that held a view, with a forwarded destroy
\* that failed.
C22_Witness ==
    /\ call.op = "destroy"
    /\ call.forwarded.result < 0
    /\ lastOpen # NoOpen
    /\ ~lastOpen.failed
    /\ g_sharedMemHandle = 0
    /\ g_sharedData = 0

\* No handle is stored twice in the array.
NoDuplicate(arr) == \A i, j \in DOMAIN arr : arr[i] = arr[j] => i = j

\* Next to C23: each tracked array holds at most MAX_TRACKED_ACTIONS
\* entries and no handle twice.
C23_WithinCapacity ==
    /\ Len(g_tracked.vec2f) <= MAX_TRACKED_ACTIONS
    /\ Len(g_tracked.floatY) <= MAX_TRACKED_ACTIONS
    /\ NoDuplicate(g_tracked.vec2f)
    /\ NoDuplicate(g_tracked.floatY)

(* C23: each tracked array holds between 0 and MAX_TRACKED_ACTIONS entries  *)
(* with no duplicate handle, and after a binding event that was forwarded   *)
(* successfully, with a resolver, every handle the event bound to a         *)
(* suffix-free left-thumbstick path is in the 2-D set and every handle it   *)
(* bound to a left-thumbstick path with the Y suffix is in the scalar set:  *)
(* none is dropped once the capacity is reached.                            *)
C23_BoundedStorage ==
    [][/\ Len(g_tracked'.vec2f) <= MAX_TRACKED_ACTIONS
       /\ Len(g_tracked'.floatY) <= MAX_TRACKED_ACTIONS
       /\ NoDuplicate(g_tracked'.vec2f)
       /\ NoDuplicate(g_tracked'.floatY)
       /\ (SuggestStep /\ call'.ret >= 0 /\ g_xrPathToString # "NULL")
              => \A h \in EventHandles(call'.suggestedBindings) :
                     LET paths == BoundPaths(call'.suggestedBindings, h)
                     IN  /\ paths \cap LeftThumbstickPlain # {}
                             => Tracks(g_tracked'.vec2f, h)
                         /\ paths \cap LeftThumbstickY # {}
                             => Tracks(g_tracked'.floatY, h)
      ]_vars

====
